---- MODULE Spec2Model ----
(***************************************************************************)
(* Tile cache proxy of SIF-ARSET (maptiler-gosif-proxy/src/main.ts).       *)
(*                                                                         *)
(* The worker's fetch handler runs once per client request inside an       *)
(* execution context.  It awaits twice (cache.match, fetch) and hands one  *)
(* promise (cache.put) to ctx.waitUntil, so a request is modelled as the   *)
(* steps between those awaits, interleaved with the other contexts and     *)
(* with the cache store.                                                   *)
(*                                                                         *)
(* Strings that the code builds (paths, URLs, credentials, messages) are   *)
(* sequences of string tokens, so that "contains the credential" and the   *)
(* regular expression are computed, not assumed.                           *)
(*                                                                         *)
(* The granule downloader that the notebooks call is modelled next to it   *)
(* (variable dl); the two share nothing.                                   *)
(***************************************************************************)
EXTENDS Integers, Sequences, FiniteSets, TLC

VARIABLES ctxs, cache, dl

vars == <<ctxs, cache, dl>>

(* ------------------------------ bounds --------------------------------- *)

\* number of distinct tile payloads upstream can serve
NumBodies == 2

\* number of dates in the range given to download_timerange
NumDates == 3

\* number of calls of download_timerange (the first and its retries)
MaxCalls == 2

\* the execution contexts that can be alive at the same time
Ctx == {"c1", "c2"}

(* ------------------------------ inputs --------------------------------- *)

NoKey == <<>>
Credentials == {<<"k", "A">>, <<"k", "B">>}

Methods == {"GET", "OPTIONS", "POST"}

Digits == {"0", "1", "2", "3", "4", "5", "6", "7", "8", "9"}

PathPlain == <<"/", "1", "/", "2", "/", "3", ".", "p", "b", "f">>
PathLeadingZero == <<"/", "0", "1", "/", "2", "/", "3", ".", "p", "b", "f">>
PathPrefixed == <<"/", "a", "1", "/", "2", "/", "3", ".", "p", "b", "f">>
PathTiles4326 == <<"/", "t", "i", "l", "e", "s", "-", "4", "3", "2", "6",
                   "/", "1", "/", "2", "/", "3", ".", "p", "b", "f">>
PathOther == <<"/", "1", "/", "2", "/", "4", ".", "p", "b", "f">>
PathAbcTiles == <<"/", "a", "b", "c", "/", "t", "i", "l", "e", "s">>
PathTrailing == <<"/", "1", "/", "2", "/", "3", ".", "p", "b", "f", "x">>

Paths == {PathPlain, PathLeadingZero, PathPrefixed, PathTiles4326, PathOther,
          PathAbcTiles, PathTrailing}

Bodies == {<<"tile-bytes", ToString(i)>> : i \in 1..NumBodies}
NullBody == <<>>

(* ------------------------------ headers -------------------------------- *)

EmptyHeaders == [h \in {} |-> ""]

\* Headers.set / a header literal: the later value wins
SetHeader(headers, name, value) == (name :> value) @@ headers

HasHeader(headers, name) == name \in DOMAIN headers

\* Headers.get(name) || fallback
GetHeaderOr(headers, name, fallback) ==
    IF HasHeader(headers, name) /\ headers[name] # "" THEN headers[name] ELSE fallback

CorsOnly == ("Access-Control-Allow-Origin" :> "*")

\* the headers a client sends with its request
RequestHeaderSets == {EmptyHeaders, ("Accept-Encoding" :> "gzip")}

\* every invocation the model can deliver: request.method, url.pathname,
\* request.headers, env.MAPTILER_API_KEY
AllRequests == Methods \X Paths \X RequestHeaderSets \X (Credentials \cup {NoKey})

\* requests of one client for two different tiles
TwoTileRequests == {"GET"} \X {PathPlain, PathOther} \X {EmptyHeaders} \X {<<"k", "A">>}

\* GET requests for two spellings of one tile with a credential configured
TileRequests == {"GET"} \X {PathPlain, PathLeadingZero} \X RequestHeaderSets \X Credentials

(* ------------------------------ responses ------------------------------ *)

\* a Response object (also the value of an absent one: kind "none")
MkResponse(status, statusText, body, headers) ==
    [kind |-> "response", status |-> status, statusText |-> statusText,
     body |-> body, headers |-> headers]

NoResponse ==
    [kind |-> "none", status |-> 0, statusText |-> "", body |-> NullBody,
     headers |-> EmptyHeaders]

\* a rejected promise / thrown error carrying error.message
Thrown(message) ==
    [kind |-> "throw", status |-> 0, statusText |-> message, body |-> NullBody,
     headers |-> EmptyHeaders]

\* a check that takes any response for a success
Ok_AnyResponse(response) == response.kind = "response"

\* a check that takes every status below 500 for a success
Ok_Below500(response) == response.kind = "response" /\ response.status < 500

\* Response.ok
Ok(response) == response.kind = "response" /\ response.status \in 200..299

(* ------------------------- upstream and cache store -------------------- *)

OkStatuses == {200, 203}
ErrStatuses == {404, 503}

StatusText(status) ==
    CASE status = 200 -> "OK"
      [] status = 203 -> "Non-Authoritative Information"
      [] status = 404 -> "Not Found"
      [] status = 503 -> "Service Unavailable"
      [] OTHER -> ""

\* the headers of the tile provider's answers: two that the handler overrides
\* and one that it passes through
UpstreamHeaders ==
    ("Content-Type" :> "application/octet-stream") @@
    ("CF-Cache-Status" :> "HIT") @@ ("ETag" :> "v1")

ErrorMessages == {"Network connection lost."}

\* what awaiting fetch(tileUrl, ...) can produce: a response (ok or not), or
\* a rejection
UpstreamOutcomes ==
    {MkResponse(s, StatusText(s), b, UpstreamHeaders) : s \in OkStatuses, b \in Bodies}
    \cup {MkResponse(s, StatusText(s), <<"error-page">>, EmptyHeaders) : s \in ErrStatuses}
    \cup {Thrown(m) : m \in ErrorMessages}

\* the Age the store may attach to a matched entry ("" when it attaches none)
AgeAbsent == ""
Ages == {AgeAbsent, "60"}

\* cache.match(cacheKey): the stored response, or undefined; the store finds
\* an entry by the URL of the key
Match(store, key, age) ==
    IF key.url \in DOMAIN store
    THEN MkResponse(200, "OK", store[key.url].body,
                    IF age = AgeAbsent THEN store[key.url].headers
                    ELSE SetHeader(store[key.url].headers, "Age", age))
    ELSE NoResponse

\* a store that keeps the entry it already has
Put_KeepFirst(store, key, entry) ==
    IF key.url \in DOMAIN store THEN store ELSE (key.url :> entry) @@ store

\* a store with room for one entry
Put_Single(store, key, entry) == (key.url :> entry)

\* cache.put(cacheKey, cacheResponse) once it has completed
Put(store, key, entry) == (key.url :> entry) @@ store

Evict(store, url) == [u \in DOMAIN store \ {url} |-> store[u]]

(* ------------------------- the handler's pure parts -------------------- *)

\* a handler without the credential check
CredentialMissing_Never(apiKey) == FALSE

\* !apiKey
CredentialMissing(apiKey) == apiKey = NoKey

IsDigitRun(s, from, to) == \A j \in from..to : s[j] \in Digits

DotPbf == <<".", "p", "b", "f">>

\* (\d+)\/(\d+)\/(\d+)\.pbf matched with the first group starting at i and
\* the groups a, b and c characters long
GroupsAt(s, i, a, b, c) ==
    /\ i + a + b + c + 5 <= Len(s)
    /\ IsDigitRun(s, i, i + a - 1)
    /\ s[i + a] = "/"
    /\ IsDigitRun(s, i + a + 1, i + a + b)
    /\ s[i + a + b + 1] = "/"
    /\ IsDigitRun(s, i + a + b + 2, i + a + b + c + 1)
    /\ SubSeq(s, i + a + b + c + 2, i + a + b + c + 5) = DotPbf

\* the expression without its "$"
MatchesAt_NoAnchor(s, i) ==
    {g \in (1..Len(s)) \X (1..Len(s)) \X (1..Len(s)) :
        GroupsAt(s, i, g[1], g[2], g[3])}

\* the expression with a "^\/" before it
MatchesAt_FromStart(s, i) ==
    {g \in (1..Len(s)) \X (1..Len(s)) \X (1..Len(s)) :
        /\ i = 2
        /\ GroupsAt(s, i, g[1], g[2], g[3])
        /\ i + g[1] + g[2] + g[3] + 5 = Len(s)}

\* the group lengths with which /(\d+)\/(\d+)\/(\d+)\.pbf$/ matches from i:
\* "$" makes the match end where the path ends
MatchesAt(s, i) ==
    {g \in (1..Len(s)) \X (1..Len(s)) \X (1..Len(s)) :
        /\ GroupsAt(s, i, g[1], g[2], g[3])
        /\ i + g[1] + g[2] + g[3] + 5 = Len(s)}

NoMatch == [matched |-> FALSE, z |-> <<>>, x |-> <<>>, y |-> <<>>]

\* url.pathname.match(/(\d+)\/(\d+)\/(\d+)\.pbf$/): the leftmost match
tileMatch(pathname) ==
    LET starts == {i \in 1..Len(pathname) : MatchesAt(pathname, i) # {}} IN
    IF starts = {} THEN NoMatch
    ELSE LET i == CHOOSE m \in starts : \A n \in starts : m <= n
             g == CHOOSE h \in MatchesAt(pathname, i) :
                     \A k \in MatchesAt(pathname, i) : h[1] >= k[1]
         IN [matched |-> TRUE,
             z |-> SubSeq(pathname, i, i + g[1] - 1),
             x |-> SubSeq(pathname, i + g[1] + 1, i + g[1] + g[2]),
             y |-> SubSeq(pathname, i + g[1] + g[2] + 2, i + g[1] + g[2] + g[3] + 1)]

Template == <<"https://api.maptiler.com/tiles/v3-4326/">>

TilePath(z, x, y) == Template \o z \o <<"/">> \o x \o <<"/">> \o y \o DotPbf

\* a URL with the column and the row exchanged
tileUrl_Swapped(z, x, y, apiKey) == TilePath(z, y, x) \o <<"?key=">> \o apiKey

\* `https://api.maptiler.com/tiles/v3-4326/${z}/${x}/${y}.pbf?key=${apiKey}`
tileUrl(z, x, y, apiKey) == TilePath(z, x, y) \o <<"?key=">> \o apiKey

\* a cache key built from the URL that is fetched
cacheKey_WithSecret(z, x, y, headers, apiKey) ==
    [url |-> tileUrl(z, x, y, apiKey), method |-> "GET", headers |-> headers]

\* new Request(`https://api.maptiler.com/tiles/v3-4326/${z}/${x}/${y}.pbf`,
\*             {method: "GET", headers: request.headers}), built where apiKey is in scope
cacheKey(z, x, y, headers, apiKey) ==
    [url |-> TilePath(z, x, y), method |-> "GET", headers |-> headers]

NoRequest == [url |-> <<>>, method |-> "", headers |-> EmptyHeaders]

\* the match of every path the model delivers
TileMatches == [p \in Paths |-> tileMatch(p)]

(* ------------------------- execution contexts -------------------------- *)

NoPut == [state |-> "none", key |-> NoRequest, entry |-> NoResponse]

\* An execution context.  pc is the handler's position ("idle", awaiting
\* "match", awaiting "fetch", "done" with a Response returned, "threw" with
\* none); method, path, headers and apiKey are the invocation's arguments;
\* tileUrl, cacheKey and response are the handler's locals; returned is the
\* Response handed to the client; put is the promise given to ctx.waitUntil.
\* upstream (what fetch settled with), fetched (the URL passed to fetch) and
\* the counters lookups, fetches and puts (calls of cache.match, fetch and
\* cache.put) record what the handler did.  Bodies are values: the sharing
\* of one body stream by several Response objects is not modelled.
\*
\* an execution context that is handling no request
IdleCtx ==
    [pc |-> "idle", method |-> "", path |-> <<>>, headers |-> EmptyHeaders,
     apiKey |-> NoKey,
     tileUrl |-> <<>>, cacheKey |-> NoRequest,
     response |-> NoResponse, upstream |-> NoResponse, returned |-> NoResponse,
     lookups |-> 0, fetches |-> 0, fetched |-> <<>>, puts |-> 0, put |-> NoPut]

Return(c, resp) == [c EXCEPT !.pc = "done", !.returned = resp]

\* the reply when MAPTILER_API_KEY is not set
ConfigErrorResponse ==
    MkResponse(500, "", <<"MapTiler API key is not configured">>, CorsOnly)

\* the reply to a path that is no tile path
BadRequestResponse ==
    MkResponse(400, "", <<"Invalid tile request">>, CorsOnly)

\* the reply to a CORS preflight
PreflightResponse ==
    MkResponse(204, "", NullBody,
        ("Access-Control-Allow-Origin" :> "*") @@
        ("Access-Control-Allow-Methods" :> "GET,OPTIONS") @@
        ("Access-Control-Allow-Headers" :> "Content-Type") @@
        ("Access-Control-Max-Age" :> "86400"))

\* a handler that answers the preflight before it checks the credential
OnArrival_PreflightFirst(method, path, headers, apiKey) ==
    LET c == [IdleCtx EXCEPT !.method = method, !.path = path, !.headers = headers,
                             !.apiKey = apiKey]
        m == TileMatches[path]
    IN IF method = "OPTIONS"
       THEN Return(c, PreflightResponse)
       ELSE IF CredentialMissing(apiKey)
       THEN Return(c, ConfigErrorResponse)
       ELSE IF ~m.matched
       THEN Return(c, BadRequestResponse)
       ELSE [c EXCEPT !.pc = "match",
                      !.tileUrl = tileUrl(m.z, m.x, m.y, apiKey),
                      !.cacheKey = cacheKey(m.z, m.x, m.y, headers, apiKey),
                      !.lookups = 1]

\* the handler from its entry to its first await: credential check, preflight,
\* path match, URL and cache key, and the call of cache.match
OnArrival(method, path, headers, apiKey) ==
    LET c == [IdleCtx EXCEPT !.method = method, !.path = path, !.headers = headers,
                             !.apiKey = apiKey]
        m == TileMatches[path]
    IN IF CredentialMissing(apiKey)
       THEN Return(c, ConfigErrorResponse)
       ELSE IF method = "OPTIONS"
       THEN Return(c, PreflightResponse)
       ELSE IF ~m.matched
       THEN Return(c, BadRequestResponse)
       ELSE [c EXCEPT !.pc = "match",
                      !.tileUrl = tileUrl(m.z, m.x, m.y, apiKey),
                      !.cacheKey = cacheKey(m.z, m.x, m.y, headers, apiKey),
                      !.lookups = 1]

\* a hit that loses the stored body
HitResponse_NoBody(response) ==
    MkResponse(200, "", NullBody,
        ("Content-Type" :> "application/x-protobuf") @@
        ("Access-Control-Allow-Origin" :> "*") @@
        ("Cache-Control" :> "public, max-age=86400") @@
        ("CF-Cache-Status" :> "HIT") @@
        ("Age" :> GetHeaderOr(response.headers, "Age", "0")))

\* the response built from a cache hit
HitResponse(response) ==
    MkResponse(200, "", response.body,
        ("Content-Type" :> "application/x-protobuf") @@
        ("Access-Control-Allow-Origin" :> "*") @@
        ("Cache-Control" :> "public, max-age=86400") @@
        ("CF-Cache-Status" :> "HIT") @@
        ("Age" :> GetHeaderOr(response.headers, "Age", "0")))

\* a handler that stores the entry again on every hit
OnMatch_Rewrite(c, matched) ==
    IF matched.kind = "response"
    THEN Return([c EXCEPT !.response = matched,
                          !.puts = @ + 1,
                          !.put = [state |-> "pending", key |-> c.cacheKey,
                                   entry |-> matched]],
                HitResponse(matched))
    ELSE [c EXCEPT !.pc = "fetch", !.fetches = @ + 1, !.fetched = c.tileUrl]

\* the handler from the return of cache.match to its next await or return
OnMatch(c, matched) ==
    IF matched.kind = "response"
    THEN Return([c EXCEPT !.response = matched], HitResponse(matched))
    ELSE [c EXCEPT !.pc = "fetch", !.fetches = @ + 1, !.fetched = c.tileUrl]

\* a response that keeps the status of the upstream answer
finalResponse_UpstreamStatus(response) ==
    MkResponse(response.status, response.statusText, response.body,
        SetHeader(SetHeader(SetHeader(SetHeader(response.headers,
            "Content-Type", "application/x-protobuf"),
            "Access-Control-Allow-Origin", "*"),
            "Cache-Control", "public, max-age=86400"),
            "CF-Cache-Status", "MISS"))

\* a response that keeps the cache status the upstream answer came with
finalResponse_KeepsMarker(response) ==
    MkResponse(200, "", response.body,
        SetHeader(SetHeader(SetHeader(SetHeader(response.headers,
            "Content-Type", "application/x-protobuf"),
            "Access-Control-Allow-Origin", "*"),
            "Cache-Control", "public, max-age=86400"),
            "CF-Cache-Status", GetHeaderOr(response.headers, "CF-Cache-Status", "MISS")))

\* finalResponse: the upstream response with its headers adjusted
finalResponse(response) ==
    MkResponse(200, "", response.body,
        SetHeader(SetHeader(SetHeader(SetHeader(response.headers,
            "Content-Type", "application/x-protobuf"),
            "Access-Control-Allow-Origin", "*"),
            "Cache-Control", "public, max-age=86400"),
            "CF-Cache-Status", "MISS"))

\* a copy made from a body that was already consumed
cacheResponse_EmptyBody(response) ==
    MkResponse(200, "", NullBody,
        ("Content-Type" :> "application/x-protobuf") @@
        ("Cache-Control" :> "public, max-age=86400"))

\* a copy without the time to live
cacheResponse_NoTtl(response) ==
    MkResponse(200, "", response.body, ("Content-Type" :> "application/x-protobuf"))

\* storing the response that goes to the client
cacheResponse_AsReturned(response) == finalResponse(response)

\* cacheResponse: the copy handed to cache.put
cacheResponse(response) ==
    MkResponse(200, "", response.body,
        ("Content-Type" :> "application/x-protobuf") @@
        ("Cache-Control" :> "public, max-age=86400"))

\* a reply to an upstream error without the CORS header
UpstreamErrorResponse_NoCors(response) ==
    MkResponse(response.status, "", <<"Failed to fetch tile: ", response.statusText>>, EmptyHeaders)

\* the reply to an upstream answer that is not ok
UpstreamErrorResponse(response) ==
    MkResponse(response.status, "", <<"Failed to fetch tile: ", response.statusText>>, CorsOnly)

\* a catch block that answers 502
TransportErrorResponse_BadGateway(error) ==
    MkResponse(502, "", <<"Error fetching tile: ", error.statusText>>, CorsOnly)

\* the reply of the catch block; error.message is kept in statusText
TransportErrorResponse(error) ==
    MkResponse(500, "", <<"Error fetching tile: ", error.statusText>>, CorsOnly)

\* a handler whose reply to an upstream error names the URL it fetched
OnUpstream_EchoUrl(c, up) ==
    IF up.kind = "throw"
    THEN Return([c EXCEPT !.upstream = up], TransportErrorResponse(up))
    ELSE IF ~Ok(up)
    THEN Return([c EXCEPT !.upstream = up, !.response = up],
                MkResponse(up.status, "", <<"Failed to fetch ">> \o c.tileUrl, CorsOnly))
    ELSE Return([c EXCEPT !.upstream = up, !.response = up,
                          !.puts = @ + 1,
                          !.put = [state |-> "pending", key |-> c.cacheKey,
                                   entry |-> cacheResponse(up)]],
                finalResponse(up))

\* the handler from the settling of fetch(tileUrl) to its return; upstream
\* records what fetch settled with
OnUpstream(c, up) ==
    IF up.kind = "throw"
    THEN Return([c EXCEPT !.upstream = up], TransportErrorResponse(up))
    ELSE IF ~Ok(up)
    THEN Return([c EXCEPT !.upstream = up, !.response = up], UpstreamErrorResponse(up))
    ELSE Return([c EXCEPT !.upstream = up, !.response = up,
                          !.puts = @ + 1,
                          !.put = [state |-> "pending", key |-> c.cacheKey,
                                   entry |-> cacheResponse(up)]],
                finalResponse(up))

(* --------------------------- granule downloader ------------------------ *)

\* The downloader that the notebooks call (pysif.GesDiscDownloader).  Its
\* code is not among the sources: download_timerange is modelled from its
\* contract (three collections returned, siblings not aborted, partial
\* success reported) and from the notebook's note that a retry only downloads
\* the files not already present.  dl.archive is the set of dates of the
\* range that have a granule, dl.files the granules in the output directory,
\* dl.attempts the number of fetches of each granule so far; the other fields
\* belong to the call of download_timerange in progress: had is the content
\* of the directory when the call started, todo the granules still to be
\* started, inflight the fetches running, settled the order in which the
\* fetches ended, downloaded, notfound and failed the three collections.

\* the dates of the range
Dates == 1..NumDates

DlIdle ==
    [archive |-> {}, files |-> {}, attempts |-> [d \in Dates |-> 0],
     pc |-> "idle", parallel |-> FALSE, calls |-> 0, had |-> {},
     todo |-> {}, inflight |-> {}, settled |-> <<>>,
     downloaded |-> {}, notfound |-> {}, failed |-> {}]

\* a call that fetches every granule found, present or not
DownloadTimerange_Refetch(parallel) ==
    /\ dl.pc \in {"idle", "returned"}
    /\ dl.calls < MaxCalls
    /\ dl' = [dl EXCEPT !.pc = "running", !.parallel = parallel, !.calls = @ + 1,
                        !.had = dl.files,
                        !.todo = IF parallel THEN {} ELSE dl.archive,
                        !.inflight = IF parallel THEN dl.archive ELSE {},
                        !.attempts = [d \in Dates |->
                                        IF parallel /\ d \in dl.archive
                                        THEN @[d] + 1 ELSE @[d]],
                        !.settled = <<>>, !.downloaded = {}, !.failed = {},
                        !.notfound = Dates \ dl.archive]
    /\ UNCHANGED <<ctxs, cache>>

\* dl.download_timerange(dataset, start_date, end_date, outpath, parallel):
\* the granule of each date is resolved, the dates without one are noted, and
\* the granules not yet in outpath are fetched, all at once when parallel
DownloadTimerange(parallel) ==
    /\ dl.pc \in {"idle", "returned"}
    /\ dl.calls < MaxCalls
    /\ dl' = [dl EXCEPT !.pc = "running", !.parallel = parallel, !.calls = @ + 1,
                        !.had = dl.files,
                        !.todo = IF parallel THEN {} ELSE dl.archive \ dl.files,
                        !.inflight = IF parallel THEN dl.archive \ dl.files ELSE {},
                        !.attempts = [d \in Dates |->
                                        IF parallel /\ d \in dl.archive \ dl.files
                                        THEN @[d] + 1 ELSE @[d]],
                        !.settled = <<>>, !.downloaded = {}, !.failed = {},
                        !.notfound = Dates \ dl.archive]
    /\ UNCHANGED <<ctxs, cache>>

\* the sequential call starts the fetch of its next granule
StartFetch(d) ==
    /\ dl.pc = "running" /\ ~dl.parallel
    /\ dl.inflight = {}
    /\ d \in dl.todo /\ \A e \in dl.todo : d <= e
    /\ dl' = [dl EXCEPT !.todo = @ \ {d}, !.inflight = {d}, !.attempts[d] = @ + 1]
    /\ UNCHANGED <<ctxs, cache>>

\* the fetch of a granule ends with the file written to outpath
FetchSucceeds(d) ==
    /\ dl.pc = "running" /\ d \in dl.inflight
    /\ dl' = [dl EXCEPT !.inflight = @ \ {d}, !.files = @ \cup {d},
                        !.downloaded = @ \cup {d}, !.settled = Append(@, d)]
    /\ UNCHANGED <<ctxs, cache>>

\* a failure that cancels the fetches that have not ended
FetchFails_Aborts(d) ==
    /\ dl.pc = "running" /\ d \in dl.inflight
    /\ dl' = [dl EXCEPT !.inflight = {}, !.todo = {}, !.failed = @ \cup {d},
                        !.settled = Append(@, d)]
    /\ UNCHANGED <<ctxs, cache>>

\* the fetch of a granule fails: its URL is noted and the others go on
FetchFails(d) ==
    /\ dl.pc = "running" /\ d \in dl.inflight
    /\ dl' = [dl EXCEPT !.inflight = @ \ {d}, !.failed = @ \cup {d},
                        !.settled = Append(@, d)]
    /\ UNCHANGED <<ctxs, cache>>

\* download_timerange returns dl_granules, dates_notfound, failed_dls
DownloadReturns ==
    /\ dl.pc = "running" /\ dl.todo = {} /\ dl.inflight = {}
    /\ dl' = [dl EXCEPT !.pc = "returned"]
    /\ UNCHANGED <<ctxs, cache>>

(* ------------------------------ actions -------------------------------- *)

Init ==
    /\ ctxs = [r \in Ctx |-> IdleCtx]
    /\ cache = [u \in {} |-> NoResponse]
    /\ dl = DlIdle

\* a request arrives and runs to its first await (or to its return)
Receive(r, requests) ==
    /\ ctxs[r].pc = "idle"
    /\ \E q \in requests :
          ctxs' = [ctxs EXCEPT ![r] = OnArrival(q[1], q[2], q[3], q[4])]
    /\ UNCHANGED cache
    /\ UNCHANGED dl

\* cache.match settles with a response or with undefined
CacheMatch(r) ==
    /\ ctxs[r].pc = "match"
    /\ \E age \in Ages :
          ctxs' = [ctxs EXCEPT ![r] = OnMatch(ctxs[r], Match(cache, ctxs[r].cacheKey, age))]
    /\ UNCHANGED cache
    /\ UNCHANGED dl

\* cache.match rejects: the await is outside the try block, so the handler's
\* promise rejects and no Response is returned
CacheMatchRejects(r) ==
    /\ ctxs[r].pc = "match"
    /\ \E m \in ErrorMessages :
          ctxs' = [ctxs EXCEPT ![r] = [ctxs[r] EXCEPT !.pc = "threw", !.response = Thrown(m)]]
    /\ UNCHANGED cache
    /\ UNCHANGED dl

\* a handler that fetches again after a failure
Upstream_Retry(r) ==
    /\ ctxs[r].pc = "fetch"
    /\ \E up \in UpstreamOutcomes :
          ctxs' = [ctxs EXCEPT ![r] =
                     IF (up.kind = "throw" \/ ~Ok(up)) /\ ctxs[r].fetches < 2
                     THEN [ctxs[r] EXCEPT !.fetches = @ + 1, !.upstream = up]
                     ELSE OnUpstream(ctxs[r], up)]
    /\ UNCHANGED cache
    /\ UNCHANGED dl

\* fetch(tileUrl) settles
Upstream(r) ==
    /\ ctxs[r].pc = "fetch"
    /\ \E up \in UpstreamOutcomes :
          ctxs' = [ctxs EXCEPT ![r] = OnUpstream(ctxs[r], up)]
    /\ UNCHANGED cache
    /\ UNCHANGED dl

\* the cache.put given to ctx.waitUntil completes
PutCompletes(r) ==
    /\ ctxs[r].put.state = "pending"
    /\ cache' = Put(cache, ctxs[r].put.key, ctxs[r].put.entry)
    /\ ctxs' = [ctxs EXCEPT ![r].put.state = "stored"]
    /\ UNCHANGED dl

\* a handler that awaits cache.put inside the try block
PutRejects_Surfaces(r) ==
    /\ ctxs[r].put.state = "pending"
    /\ \E m \in ErrorMessages :
          ctxs' = [ctxs EXCEPT ![r].put.state = "failed",
                               ![r].returned = TransportErrorResponse(Thrown(m))]
    /\ UNCHANGED cache
    /\ UNCHANGED dl

\* the cache.put given to ctx.waitUntil rejects
PutRejects(r) ==
    /\ ctxs[r].put.state = "pending"
    /\ ctxs' = [ctxs EXCEPT ![r].put.state = "failed"]
    /\ UNCHANGED cache
    /\ UNCHANGED dl

\* the store drops an entry (max-age reached, or eviction)
Expire(url) ==
    /\ url \in DOMAIN cache
    /\ cache' = Evict(cache, url)
    /\ UNCHANGED ctxs
    /\ UNCHANGED dl

\* the request is over and waitUntil awaits nothing: the context ends
Release(r) ==
    /\ ctxs[r].pc \in {"done", "threw"}
    /\ ctxs[r].put.state # "pending"
    /\ ctxs' = [ctxs EXCEPT ![r] = IdleCtx]
    /\ UNCHANGED cache
    /\ UNCHANGED dl

Step(r, requests) ==
    \/ Receive(r, requests)
    \/ CacheMatch(r)
    \/ CacheMatchRejects(r)
    \/ Upstream(r)
    \/ PutCompletes(r)
    \/ PutRejects(r)
    \/ Release(r)

\* overlapping tile requests
Next ==
    \/ \E r \in Ctx : Step(r, TileRequests)
    \/ \E url \in DOMAIN cache : Expire(url)

Spec == Init /\ [][Next]_vars

\* one request at a time, of any method, path and configuration
NextAny ==
    \/ Step("c1", AllRequests)
    \/ \E url \in DOMAIN cache : Expire(url)

SpecAny == Init /\ [][NextAny]_vars

\* overlapping requests for two tiles
NextTiles ==
    \/ \E r \in Ctx : Step(r, TwoTileRequests)
    \/ \E url \in DOMAIN cache : Expire(url)

SpecTiles == Init /\ [][NextTiles]_vars

\* calls of download_timerange over one range and one output directory
InitDl ==
    /\ ctxs = [r \in Ctx |-> IdleCtx]
    /\ cache = [u \in {} |-> NoResponse]
    /\ \E a \in SUBSET Dates : dl = [DlIdle EXCEPT !.archive = a]

NextDl ==
    \/ \E parallel \in BOOLEAN : DownloadTimerange(parallel)
    \/ \E d \in Dates : StartFetch(d)
    \/ \E d \in Dates : FetchSucceeds(d)
    \/ \E d \in Dates : FetchFails(d)
    \/ DownloadReturns

SpecDl == InitDl /\ [][NextDl]_vars

(* ------------------------------ properties ----------------------------- *)

\* t occurs in s as a run of consecutive elements
Contains(s, t) ==
    \E i \in 1..(Len(s) - Len(t) + 1) : SubSeq(s, i, i + Len(t) - 1) = t

HeaderIs(headers, name, value) == HasHeader(headers, name) /\ headers[name] = value

Started(r) == ctxs[r].pc # "idle"

SameTile(r, q) ==
    /\ TileMatches[ctxs[r].path].z = TileMatches[ctxs[q].path].z
    /\ TileMatches[ctxs[r].path].x = TileMatches[ctxs[q].path].x
    /\ TileMatches[ctxs[r].path].y = TileMatches[ctxs[q].path].y

UpstreamFailed(c) ==
    \/ c.upstream.kind = "throw"
    \/ c.upstream.kind = "response" /\ c.upstream.status \notin 200..299

UpstreamSucceeded(c) ==
    c.upstream.kind = "response" /\ c.upstream.status \in 200..299

\* C1: the cache key of a tile request depends on (z, x, y) only: it holds no
\* credential, two requests for the same triple under any credentials have
\* keys with the same URL and method (the same key, when the clients sent the
\* same headers), and no entry of the store is keyed by a URL that holds a
\* credential.
C1_CacheKeyIndependentOfCredential ==
    /\ \A r \in Ctx : \A k \in Credentials :
          ctxs[r].cacheKey # NoRequest => ~Contains(ctxs[r].cacheKey.url, k)
    /\ \A r, q \in Ctx :
          (ctxs[r].cacheKey # NoRequest /\ ctxs[q].cacheKey # NoRequest /\ SameTile(r, q))
             => /\ ctxs[r].cacheKey.url = ctxs[q].cacheKey.url
                /\ ctxs[r].cacheKey.method = ctxs[q].cacheKey.method
                /\ ctxs[r].headers = ctxs[q].headers => ctxs[r].cacheKey = ctxs[q].cacheKey
    /\ \A u \in DOMAIN cache : \A k \in Credentials : ~Contains(u, k)

\* one context has stored a tile under one credential and another context,
\* under the other credential, was served that tile as a hit
C1_Witness ==
    \E r, q \in Ctx :
        /\ ctxs[r].apiKey # ctxs[q].apiKey
        /\ ctxs[r].pc = "done" /\ ctxs[r].put.state = "stored"
        /\ ctxs[q].pc = "done" /\ HeaderIs(ctxs[q].returned.headers, "CF-Cache-Status", "HIT")
        /\ ctxs[q].cacheKey.url = ctxs[r].cacheKey.url
        /\ ctxs[q].returned.body = ctxs[r].returned.body

\* C2: without a credential a tile request is answered 500 and has made no
\* cache lookup, no upstream fetch and no cache write.
C2_NoCredentialNoFetch ==
    \A r \in Ctx :
        (Started(r) /\ ctxs[r].apiKey = NoKey /\ TileMatches[ctxs[r].path].matched)
           => /\ ctxs[r].pc = "done"
              /\ ctxs[r].returned.status = 500
              /\ ctxs[r].lookups = 0 /\ ctxs[r].fetches = 0
              /\ ctxs[r].puts = 0 /\ ctxs[r].put = NoPut

C2_Witness ==
    \E r \in Ctx :
        /\ ctxs[r].pc = "done" /\ ctxs[r].apiKey = NoKey
        /\ ctxs[r].method = "GET" /\ ctxs[r].path = PathPlain
        /\ ctxs[r].returned.status = 500

\* C3: an OPTIONS request is answered 204 with no body and the four CORS
\* headers, without an upstream fetch, whatever the configuration.
C3_PreflightAlways204 ==
    \A r \in Ctx :
        (Started(r) /\ ctxs[r].method = "OPTIONS")
           => /\ ctxs[r].pc = "done"
              /\ ctxs[r].returned.status = 204
              /\ ctxs[r].returned.body = NullBody
              /\ HeaderIs(ctxs[r].returned.headers, "Access-Control-Allow-Origin", "*")
              /\ HeaderIs(ctxs[r].returned.headers, "Access-Control-Allow-Methods", "GET,OPTIONS")
              /\ HeaderIs(ctxs[r].returned.headers, "Access-Control-Allow-Headers", "Content-Type")
              /\ HeaderIs(ctxs[r].returned.headers, "Access-Control-Max-Age", "86400")
              /\ ctxs[r].fetches = 0

\* C4: a request that is neither GET nor OPTIONS and whose path is a tile
\* path gets an error response and causes no upstream fetch and no cache write.
C4_OtherMethodsRejected ==
    \A r \in Ctx :
        (Started(r) /\ ctxs[r].method \notin {"GET", "OPTIONS"}
                    /\ TileMatches[ctxs[r].path].matched)
           => /\ ctxs[r].fetches = 0
              /\ ctxs[r].puts = 0
              /\ ctxs[r].pc = "done" => ctxs[r].returned.status \in 400..599

\* C5: with a credential, a request that is no preflight and whose path is
\* no tile path is answered 400 with the CORS header, and has made no cache
\* lookup, no upstream fetch and no cache write.
C5_BadPath400 ==
    \A r \in Ctx :
        (Started(r) /\ ctxs[r].apiKey # NoKey /\ ctxs[r].method # "OPTIONS"
                    /\ ctxs[r].path \in {PathAbcTiles, PathTrailing})
           => /\ ctxs[r].pc = "done"
              /\ ctxs[r].returned.status = 400
              /\ HeaderIs(ctxs[r].returned.headers, "Access-Control-Allow-Origin", "*")
              /\ ctxs[r].lookups = 0 /\ ctxs[r].fetches = 0
              /\ ctxs[r].puts = 0 /\ ctxs[r].put = NoPut

C5_Witness ==
    \E r \in Ctx :
        /\ ctxs[r].pc = "done" /\ ctxs[r].apiKey # NoKey
        /\ ctxs[r].method = "GET" /\ ctxs[r].path = PathAbcTiles
        /\ ctxs[r].returned.status = 400

\* C6: when cache.match finds the entry of the request's key, the request is
\* answered 200 with the stored body, the content type, the CORS header, the
\* one-day cache-control and the marker HIT, without an upstream fetch and
\* without a cache write.
C6_HitServedFromCache ==
    [][\A r \in Ctx :
          (/\ ctxs[r].pc = "match"
           /\ ctxs[r].cacheKey.url \in DOMAIN cache
           /\ ctxs'[r] # ctxs[r]
           /\ ctxs'[r].pc # "threw")
             => /\ ctxs'[r].pc = "done"
                /\ ctxs'[r].returned.status = 200
                /\ ctxs'[r].returned.body = cache[ctxs[r].cacheKey.url].body
                /\ HeaderIs(ctxs'[r].returned.headers, "Content-Type", "application/x-protobuf")
                /\ HeaderIs(ctxs'[r].returned.headers, "Access-Control-Allow-Origin", "*")
                /\ HeaderIs(ctxs'[r].returned.headers, "Cache-Control", "public, max-age=86400")
                /\ HeaderIs(ctxs'[r].returned.headers, "CF-Cache-Status", "HIT")
                /\ ctxs'[r].fetches = 0
                /\ ctxs'[r].puts = 0 /\ ctxs'[r].put = NoPut
                /\ cache' = cache]_vars

C6_Witness ==
    \E r \in Ctx :
        /\ ctxs[r].pc = "done"
        /\ HeaderIs(ctxs[r].returned.headers, "CF-Cache-Status", "HIT")
        /\ ctxs[r].returned.body \in Bodies

\* C7: when the upstream fetch of a miss settles with a status that is not
\* a success, the request is answered with that status, the upstream status
\* text and the CORS header, no cache write is made and the store is
\* unchanged.
C7_UpstreamErrorPropagated ==
    [][\A r \in Ctx :
          (/\ ctxs[r].pc = "fetch"
           /\ ctxs'[r] # ctxs[r]
           /\ ctxs'[r].upstream.kind = "response"
           /\ ctxs'[r].upstream.status \notin 200..299)
             => /\ ctxs'[r].pc = "done"
                /\ ctxs'[r].returned.status = ctxs'[r].upstream.status
                /\ ctxs'[r].returned.body =
                      <<"Failed to fetch tile: ", ctxs'[r].upstream.statusText>>
                /\ HeaderIs(ctxs'[r].returned.headers, "Access-Control-Allow-Origin", "*")
                /\ ctxs'[r].puts = 0 /\ ctxs'[r].put = NoPut
                /\ cache' = cache]_vars

C7_Witness ==
    \E r \in Ctx :
        /\ ctxs[r].pc = "done"
        /\ ctxs[r].upstream.kind = "response" /\ ctxs[r].upstream.status = 404
        /\ ctxs[r].returned.status = 404

C9_TransportError500 ==
    \A r \in Ctx :
        (Started(r) /\ ctxs[r].upstream.kind = "throw")
           => /\ ctxs[r].pc = "done"
              /\ ctxs[r].returned.status = 500
              /\ ctxs[r].returned.body = <<"Error fetching tile: ", ctxs[r].upstream.statusText>>
              /\ HeaderIs(ctxs[r].returned.headers, "Access-Control-Allow-Origin", "*")
              /\ ctxs[r].puts = 0 /\ ctxs[r].put = NoPut
              /\ ctxs[r].fetches = 1

C9_Witness ==
    \E r \in Ctx :
        /\ ctxs[r].pc = "done" /\ ctxs[r].upstream.kind = "throw"
        /\ ctxs[r].returned.status = 500

\* C10: a request fetches upstream at most once; an upstream failure ends
\* the request at once with the response that reports it, and a response,
\* once returned, is the request's response until its context ends.
C10_NoRetries ==
    /\ [](\A r \in Ctx :
            /\ ctxs[r].fetches <= 1
            /\ UpstreamFailed(ctxs[r])
                  => /\ ctxs[r].pc = "done"
                     /\ ctxs[r].fetches = 1
                     /\ ctxs[r].returned.status =
                           IF ctxs[r].upstream.kind = "throw" THEN 500
                           ELSE ctxs[r].upstream.status)
    /\ [][\A r \in Ctx :
            ctxs[r].pc = "done"
               => \/ ctxs'[r] = IdleCtx
                  \/ /\ ctxs'[r].pc = "done"
                     /\ ctxs'[r].returned = ctxs[r].returned
                     /\ ctxs'[r].fetches = ctxs[r].fetches]_vars

C10_Witness ==
    \E r, q \in Ctx :
        /\ r # q
        /\ ctxs[r].pc = "done" /\ ctxs[r].upstream.kind = "throw" /\ ctxs[r].fetches = 1
        /\ ctxs[q].pc = "done" /\ ctxs[q].upstream.kind = "response"
        /\ ctxs[q].upstream.status = 503 /\ ctxs[q].fetches = 1

SameRequest(r, q) ==
    /\ ctxs[r].method = ctxs[q].method
    /\ ctxs[r].path = ctxs[q].path
    /\ ctxs[r].headers = ctxs[q].headers

\* the store holds, under the key of r's write, the entry that r's completed
\* write stored (it has not expired and no other write has replaced it)
HoldsWriteOf(r) ==
    /\ ctxs[r].pc = "done"
    /\ UpstreamSucceeded(ctxs[r])
    /\ ctxs[r].put.state = "stored"
    /\ ctxs[r].put.key.url \in DOMAIN cache
    /\ cache[ctxs[r].put.key.url] = ctxs[r].put.entry

\* q's cache.match settles in this step without rejecting
LookupSettles(q) ==
    /\ ctxs[q].pc = "match"
    /\ ctxs'[q] # ctxs[q]
    /\ ctxs'[q].pc # "threw"

C13_WriteIsFireAndForget ==
    /\ [](\A r, q \in Ctx :
            /\ ctxs[r].put.state # "none"
                  => ctxs[r].pc = "done" /\ ctxs[r].returned.status = 200
            /\ (UpstreamSucceeded(ctxs[r]) /\ UpstreamSucceeded(ctxs[q])
                  /\ ctxs[r].pc = "done" /\ ctxs[q].pc = "done"
                  /\ ctxs[r].upstream = ctxs[q].upstream)
                  => ctxs[r].returned = ctxs[q].returned)
    /\ [][\A r \in Ctx :
            /\ (ctxs[r].pc = "fetch" /\ UpstreamSucceeded(ctxs'[r]))
                  => ctxs'[r].pc = "done" /\ ctxs'[r].put.state = "pending"
            /\ ctxs[r].put.state = "pending"
                  => ctxs'[r].pc = "done" /\ ctxs'[r].returned = ctxs[r].returned]_vars

\* the same upstream answer, one write completed, one rejected, one response
C13_Witness ==
    \E r, q \in Ctx :
        /\ ctxs[r].pc = "done" /\ ctxs[q].pc = "done"
        /\ UpstreamSucceeded(ctxs[r]) /\ ctxs[r].upstream = ctxs[q].upstream
        /\ ctxs[r].put.state = "stored" /\ ctxs[q].put.state = "failed"
        /\ ctxs[r].returned = ctxs[q].returned

C15_ErrorsCarryCors ==
    \A r \in Ctx :
        (ctxs[r].pc = "done" /\ ctxs[r].returned.status >= 400)
           => HeaderIs(ctxs[r].returned.headers, "Access-Control-Allow-Origin", "*")

\* a propagated upstream error with the CORS header
C15_Witness ==
    \E r \in Ctx :
        /\ ctxs[r].pc = "done" /\ ctxs[r].fetches = 1
        /\ ctxs[r].upstream.kind = "response"
        /\ ctxs[r].returned.status = ctxs[r].upstream.status
        /\ ctxs[r].returned.status \in ErrStatuses
        /\ HeaderIs(ctxs[r].returned.headers, "Access-Control-Allow-Origin", "*")

\* C16: every request, whatever the outcome of its steps (the failure of the
\* cache lookup included), ends with one returned response that has a status
\* and, when it is an error, a message.
C16_EveryOutcomeAnswered ==
    \A r \in Ctx :
        /\ ctxs[r].pc # "threw"
        /\ ctxs[r].pc = "done"
              => /\ ctxs[r].returned.kind = "response"
                 /\ ctxs[r].returned.status \in 200..599
                 /\ ctxs[r].returned.status >= 400 => ctxs[r].returned.body # NullBody

\* the strings of a response that a client can read
ClientVisible(response) ==
    {response.body} \cup {<<response.statusText>>}
       \cup {<<response.headers[h]>> : h \in DOMAIN response.headers}

C18_UrlAndKey ==
    \A r \in Ctx :
        ctxs[r].fetches >= 1
           => LET m == TileMatches[ctxs[r].path]
                  u == ctxs[r].fetched
              IN /\ u = <<"https://api.maptiler.com/tiles/v3-4326/">> \o m.z \o <<"/">>
                           \o m.x \o <<"/">> \o m.y \o <<".", "p", "b", "f">>
                           \o <<"?key=">> \o ctxs[r].apiKey
                 /\ ctxs[r].cacheKey.url = SubSeq(u, 1, Len(u) - Len(ctxs[r].apiKey) - 1)
                 /\ ctxs[r].lookups = 1
                 /\ ctxs[r].put.state # "none" => ctxs[r].put.key = ctxs[r].cacheKey

\* a miss of /01/2/3.pbf that fetched and wrote
C18_Witness ==
    \E r \in Ctx :
        /\ ctxs[r].path = PathLeadingZero
        /\ ctxs[r].fetches = 1 /\ ctxs[r].put.state = "stored"
        /\ ctxs[r].apiKey = <<"k", "B">>
        /\ ctxs[r].cacheKey.url \in DOMAIN cache

\* C19: no step of the handler changes the store, nothing of a request
\* stays behind when its context ends, and the store changes only by the
\* write a successful upstream fetch scheduled (or by the store dropping an
\* entry on its own).
C19_StoreChangedOnlyByWrite ==
    /\ [](\A r \in Ctx :
            ctxs[r].put.state # "none"
               => /\ ctxs[r].puts = 1 /\ ctxs[r].fetches = 1
                  /\ UpstreamSucceeded(ctxs[r]))
    /\ [][/\ \A r \in Ctx :
               /\ ctxs'[r].pc # ctxs[r].pc => cache' = cache
               /\ ctxs'[r].pc = "idle" => ctxs'[r] = IdleCtx
          /\ cache' # cache
               => \/ \E r \in Ctx :
                        /\ ctxs[r].put.state = "pending" /\ ctxs'[r].put.state = "stored"
                        /\ ctxs[r].returned.status = 200
                        /\ cache' = (ctxs[r].cacheKey.url :> ctxs[r].put.entry) @@ cache
                  \/ /\ ctxs' = ctxs
                     /\ \E u \in DOMAIN cache :
                           cache' = [v \in DOMAIN cache \ {u} |-> cache[v]]]_vars

\* a rejected request returned while the store held an entry
C19_Witness ==
    \E r \in Ctx :
        /\ ctxs[r].pc = "done" /\ ctxs[r].returned.status = 400
        /\ ctxs[r].lookups = 0
        /\ DOMAIN cache # {}

\* C20: every entry written holds no credential and carries the content
\* type application/x-protobuf and max-age=86400; no step of the handler
\* removes an entry; a lookup that finds the entry is a hit, and one that
\* finds it gone (the store dropped it) goes on to the upstream fetch.
C20_EntriesAndExpiry ==
    /\ [](/\ \A u \in DOMAIN cache :
               /\ cache[u].headers = ("Content-Type" :> "application/x-protobuf") @@
                                     ("Cache-Control" :> "public, max-age=86400")
               /\ cache[u].body \in Bodies
               /\ \A k \in Credentials : ~Contains(u, k) /\ ~Contains(cache[u].body, k)
          /\ \A r \in Ctx :
               ctxs[r].put.state # "none"
                  => /\ HeaderIs(ctxs[r].put.entry.headers, "Content-Type", "application/x-protobuf")
                     /\ HeaderIs(ctxs[r].put.entry.headers, "Cache-Control", "public, max-age=86400")
                     /\ ~HasHeader(ctxs[r].put.entry.headers, "ETag")
                     /\ \A k \in Credentials : ~Contains(ctxs[r].put.key.url, k))
    /\ [][/\ (\E u \in DOMAIN cache : u \notin DOMAIN cache') => ctxs' = ctxs
          /\ \A q \in Ctx :
               LookupSettles(q)
                  => IF ctxs[q].cacheKey.url \in DOMAIN cache
                     THEN /\ ctxs'[q].pc = "done"
                          /\ HeaderIs(ctxs'[q].returned.headers, "CF-Cache-Status", "HIT")
                     ELSE /\ ctxs'[q].pc = "fetch"
                          /\ ctxs'[q].fetches = 1]_vars

\* the entry a miss wrote is gone and a request for the tile is fetching
C20_Witness ==
    \E r, q \in Ctx :
        /\ ctxs[r].pc = "done" /\ ctxs[r].put.state = "stored"
        /\ ctxs[r].put.key.url \notin DOMAIN cache
        /\ ctxs[q].pc = "fetch" /\ SameTile(r, q)

DigitValue(d) ==
    CASE d = "0" -> 0 [] d = "1" -> 1 [] d = "2" -> 2 [] d = "3" -> 3 [] d = "4" -> 4
      [] d = "5" -> 5 [] d = "6" -> 6 [] d = "7" -> 7 [] d = "8" -> 8 [] d = "9" -> 9

\* the integer that a run of decimal digits denotes
RECURSIVE ToInt(_)
ToInt(s) ==
    IF s = <<>> THEN 0
    ELSE 10 * ToInt(SubSeq(s, 1, Len(s) - 1)) + DigitValue(s[Len(s)])

\* the (zoom, x, y) integers of the request a context is handling
IntTriple(r) ==
    LET m == TileMatches[ctxs[r].path]
    IN <<ToInt(m.z), ToInt(m.x), ToInt(m.y)>>

\* C21: two tile requests whose paths denote the same (zoom, x, y) integers
\* use the same cache key URL and fetch the same upstream tile.
C21_SameIntegersSameTile ==
    \A r, q \in Ctx :
        (/\ ctxs[r].pc # "idle" /\ ctxs[q].pc # "idle"
         /\ TileMatches[ctxs[r].path].matched /\ TileMatches[ctxs[q].path].matched
         /\ IntTriple(r) = IntTriple(q))
           => /\ ctxs[r].cacheKey.url = ctxs[q].cacheKey.url
              /\ (ctxs[r].apiKey = ctxs[q].apiKey => ctxs[r].tileUrl = ctxs[q].tileUrl)

\* C22: in a parallel download the failure of one fetch stops no other: the
\* fetches in flight stay in flight, a running call can always go on, and
\* the call returns the granules it downloaded, the dates without a granule
\* and the failed ones, which together account for every granule it had to
\* fetch.
C22_FailureDoesNotAbortSiblings ==
    /\ [](/\ dl.pc = "running"
               => \/ dl.inflight # {} /\ \A d \in dl.inflight :
                                            ENABLED FetchSucceeds(d) /\ ENABLED FetchFails(d)
                  \/ \E d \in Dates : ENABLED StartFetch(d)
                  \/ ENABLED DownloadReturns
          /\ dl.pc = "returned"
               => /\ dl.notfound = Dates \ dl.archive
                  /\ dl.downloaded \cup dl.failed = dl.archive \ dl.had
                  /\ dl.downloaded \cap dl.failed = {}
                  /\ dl.downloaded \subseteq dl.files
                  /\ dl.failed \cap dl.files = {})
    /\ [][\A d \in Dates :
            (d \in dl'.failed /\ d \notin dl.failed /\ dl.pc = "running")
               => /\ dl'.pc = "running"
                  /\ dl'.inflight = dl.inflight \ {d}
                  /\ dl'.todo = dl.todo
                  /\ dl'.downloaded = dl.downloaded]_vars

\* a parallel call returned all three collections, and a granule was
\* downloaded after the fetch of another had failed
C22_Witness ==
    /\ dl.pc = "returned" /\ dl.parallel
    /\ dl.downloaded # {} /\ dl.notfound # {} /\ dl.failed # {}
    /\ \E i, j \in 1..Len(dl.settled) :
          i < j /\ dl.settled[i] \in dl.failed /\ dl.settled[j] \in dl.downloaded

\* C23: a call of download_timerange over the same range and directory
\* fetches only granules that are not present: a granule downloaded earlier
\* stays and is never fetched again, and when a call returns without a
\* failure the directory holds every granule found for the range.
C23_RetryFetchesOnlyMissing ==
    /\ [](/\ dl.files \subseteq dl.archive
          /\ (dl.pc = "returned" /\ dl.failed = {}) => dl.files = dl.archive
          /\ \A d \in Dates : dl.attempts[d] <= dl.calls)
    /\ [][/\ dl.files \subseteq dl'.files
          /\ \A d \in Dates :
               dl'.attempts[d] > dl.attempts[d]
                  => d \in dl.archive /\ d \notin dl.files]_vars

\* the second call fetched only the granule whose fetch had failed in the
\* first, and the directory holds every granule found
C23_Witness ==
    /\ dl.pc = "returned" /\ dl.calls = 2 /\ dl.failed = {}
    /\ dl.files = dl.archive
    /\ \E d, e \in dl.archive : dl.attempts[d] = 2 /\ dl.attempts[e] = 1
    /\ dl.had # {} /\ dl.downloaded = dl.archive \ dl.had

\* C24: every stored payload is a body that a successful upstream answer
\* for the URL of its key delivered: an entry appears or changes only with
\* the body that a context fetched with success from that URL; a response
\* marked HIT has status 200 and a tile payload, never an error text; an
\* upstream failure stores nothing, so a later lookup for the tile that finds
\* no entry goes upstream again.
C24_CacheIntegrity ==
    /\ [](/\ \A u \in DOMAIN cache : cache[u].status = 200 /\ cache[u].body \in Bodies
          /\ \A r \in Ctx :
               (ctxs[r].pc = "done"
                  /\ HeaderIs(ctxs[r].returned.headers, "CF-Cache-Status", "HIT"))
                  => /\ ctxs[r].returned.status = 200
                     /\ ctxs[r].returned.body \in Bodies
                     /\ ctxs[r].fetches = 0)
    /\ [][/\ \A u \in DOMAIN cache' :
               (u \notin DOMAIN cache \/ cache'[u] # cache[u])
                  => \E r \in Ctx :
                        /\ UpstreamSucceeded(ctxs[r])
                        /\ ctxs[r].upstream.body = cache'[u].body
                        /\ ctxs[r].fetched = u \o <<"?key=">> \o ctxs[r].apiKey
          /\ \A r \in Ctx :
               (ctxs[r].pc = "fetch" /\ UpstreamFailed(ctxs'[r]))
                  => /\ cache' = cache
                     /\ ctxs'[r].puts = 0 /\ ctxs'[r].put = NoPut
          /\ \A r, q \in Ctx :
               (/\ ctxs[r].pc = "done" /\ UpstreamFailed(ctxs[r])
                /\ LookupSettles(q) /\ SameTile(r, q)
                /\ ctxs[q].cacheKey.url \notin DOMAIN cache)
                  => ctxs'[q].pc = "fetch" /\ ctxs'[q].fetches = 1]_vars

\* one request of a tile failed upstream, another fetched it and its write
\* completed
C24_Witness ==
    \E r, q \in Ctx :
        /\ ctxs[r].pc = "done" /\ UpstreamFailed(ctxs[r])
        /\ ctxs[q].pc = "done" /\ SameTile(r, q)
        /\ ctxs[q].fetches = 1 /\ UpstreamSucceeded(ctxs[q])
        /\ ctxs[q].put.state = "stored"
        /\ ctxs[q].cacheKey.url \in DOMAIN cache
        /\ cache[ctxs[q].cacheKey.url].body = ctxs[q].upstream.body

\* C25: within one request the credential check comes before the preflight
\* check, the preflight check before the path match, the path match before
\* the cache lookup; the upstream fetch is started only by a lookup of the
\* same request that found nothing, and the cache write only by the
\* successful settling of the upstream fetch of the same request.
C25_OrderOfSteps ==
    /\ [](\A r \in Ctx :
            ctxs[r].pc # "idle"
               => /\ ctxs[r].apiKey = NoKey
                     => /\ ctxs[r].pc = "done" /\ ctxs[r].returned.status = 500
                        /\ ctxs[r].lookups = 0
                  /\ (ctxs[r].apiKey # NoKey /\ ctxs[r].method = "OPTIONS")
                     => /\ ctxs[r].pc = "done" /\ ctxs[r].returned.status = 204
                        /\ ctxs[r].lookups = 0
                  /\ (ctxs[r].apiKey # NoKey /\ ctxs[r].method # "OPTIONS"
                        /\ ~TileMatches[ctxs[r].path].matched)
                     => /\ ctxs[r].pc = "done" /\ ctxs[r].returned.status = 400
                        /\ ctxs[r].lookups = 0
                  /\ ctxs[r].fetches <= ctxs[r].lookups
                  /\ ctxs[r].puts <= ctxs[r].fetches)
    /\ [][\A r \in Ctx :
            /\ ctxs'[r].lookups > ctxs[r].lookups
                  => ctxs[r].pc = "idle" /\ ctxs'[r].pc = "match"
            /\ ctxs'[r].fetches > ctxs[r].fetches
                  => /\ ctxs[r].pc = "match" /\ ctxs[r].lookups = 1
                     /\ ctxs[r].cacheKey.url \notin DOMAIN cache
                     /\ ctxs'[r].pc = "fetch"
            /\ ctxs'[r].puts > ctxs[r].puts
                  => /\ ctxs[r].pc = "fetch" /\ ctxs[r].fetches = 1
                     /\ UpstreamSucceeded(ctxs'[r])
                     /\ ctxs'[r].put.state = "pending"]_vars

\* a preflight for a path that is no tile path, without a credential, was
\* answered by the credential check
C25_Witness ==
    \E r \in Ctx :
        /\ ctxs[r].pc = "done"
        /\ ctxs[r].method = "OPTIONS" /\ ctxs[r].apiKey = NoKey
        /\ ctxs[r].path = PathAbcTiles
        /\ ctxs[r].returned.status = 500

\* the paths of the model that end in 1/2/3.pbf after something that is no
\* part of the tile
PathsEndingIn123 == {PathPlain, PathPrefixed, PathTiles4326}

Url123 == <<"https://api.maptiler.com/tiles/v3-4326/", "1", "/", "2", "/", "3", ".", "p", "b", "f">>

\* C26: the tile pattern is matched at the end of the path only: a path that
\* ends in 1/2/3.pbf is accepted whatever precedes it (/tiles-4326/...,
\* /a1/...), a path that goes on after .pbf is rejected, the triple is the
\* trailing one, and all those paths use one cache key URL, one upstream
\* tile and one entry of the store.
C26_TrailingMatch ==
    /\ [](\A r \in Ctx :
            (ctxs[r].pc # "idle" /\ ctxs[r].apiKey # NoKey /\ ctxs[r].method # "OPTIONS")
               => /\ ctxs[r].path \in PathsEndingIn123
                     => /\ ctxs[r].lookups = 1
                        /\ ctxs[r].cacheKey.url = Url123
                        /\ ctxs[r].tileUrl = Url123 \o <<"?key=">> \o ctxs[r].apiKey
                  /\ ctxs[r].path \in {PathTrailing, PathAbcTiles}
                     => /\ ctxs[r].lookups = 0
                        /\ ctxs[r].returned.status = 400)
    /\ [][\A q \in Ctx :
            (LookupSettles(q) /\ ctxs[q].path \in PathsEndingIn123
               /\ Url123 \in DOMAIN cache)
               => /\ HeaderIs(ctxs'[q].returned.headers, "CF-Cache-Status", "HIT")
                  /\ ctxs'[q].returned.body = cache[Url123].body]_vars

\* /tiles-4326/1/2/3.pbf was a hit on the entry of the tile 1/2/3
C26_Witness ==
    \E r \in Ctx :
        /\ ctxs[r].pc = "done" /\ ctxs[r].path = PathTiles4326
        /\ ctxs[r].lookups = 1 /\ ctxs[r].fetches = 0
        /\ HeaderIs(ctxs[r].returned.headers, "CF-Cache-Status", "HIT")
        /\ Url123 \in DOMAIN cache

\* C27: whatever success status upstream answered with, the miss is
\* answered 200, the copy for the store has status 200, and a hit is
\* answered 200: the upstream's status and status text reach no client.
C27_SuccessStatusNormalised ==
    \A r \in Ctx :
        /\ (ctxs[r].pc = "done" /\ UpstreamSucceeded(ctxs[r]))
              => /\ ctxs[r].returned.status = 200
                 /\ ctxs[r].returned.statusText = ""
                 /\ ctxs[r].put.entry.status = 200
                 /\ ctxs[r].put.entry.statusText = ""
        /\ (ctxs[r].pc = "done"
              /\ HeaderIs(ctxs[r].returned.headers, "CF-Cache-Status", "HIT"))
              => /\ ctxs[r].returned.status = 200
                 /\ ctxs[r].returned.statusText = ""
        /\ \A u \in DOMAIN cache : cache[u].status = 200 /\ cache[u].statusText = ""

\* an upstream 203 answered 200, stored with 200 and served 200 as a hit
C27_Witness ==
    \E r, q \in Ctx :
        /\ ctxs[r].pc = "done" /\ ctxs[r].upstream.kind = "response"
        /\ ctxs[r].upstream.status = 203
        /\ ctxs[r].returned.status = 200
        /\ HoldsWriteOf(r)
        /\ ctxs[q].pc = "done" /\ ctxs[q].fetches = 0
        /\ ctxs[q].cacheKey = ctxs[r].cacheKey
        /\ ctxs[q].returned.status = 200
        /\ ctxs[q].returned.body = ctxs[r].upstream.body

\* C28: requests for one tile leave the entry of every other tile as it is,
\* and what a request is answered with comes from the entry of its own key
\* or from its own fetch.
C28_TilesDoNotInterfere ==
    [][\A r \in Ctx :
          ctxs'[r] # ctxs[r]
             => /\ \A u \in (DOMAIN cache \cup DOMAIN cache')
                            \ {ctxs[r].cacheKey.url, ctxs'[r].cacheKey.url} :
                      /\ u \in DOMAIN cache /\ u \in DOMAIN cache'
                      /\ cache'[u] = cache[u]
                /\ (ctxs[r].pc = "match" /\ ctxs'[r].pc = "done")
                      => /\ ctxs[r].cacheKey.url \in DOMAIN cache
                         /\ ctxs'[r].returned.body = cache[ctxs[r].cacheKey.url].body
                /\ (ctxs[r].pc = "match" /\ ctxs'[r].pc = "fetch")
                      => ctxs[r].cacheKey.url \notin DOMAIN cache
                /\ (ctxs[r].pc = "fetch" /\ UpstreamSucceeded(ctxs'[r]))
                      => ctxs'[r].returned.body = ctxs'[r].upstream.body]_vars

\* two tiles stored with different payloads, each request answered with the
\* payload of its own tile
C28_Witness ==
    \E r, q \in Ctx :
        /\ ctxs[r].pc = "done" /\ ctxs[q].pc = "done"
        /\ ctxs[r].path = PathPlain /\ ctxs[q].path = PathOther
        /\ ctxs[r].cacheKey.url \in DOMAIN cache /\ ctxs[q].cacheKey.url \in DOMAIN cache
        /\ cache[ctxs[r].cacheKey.url].body # cache[ctxs[q].cacheKey.url].body
        /\ ctxs[r].fetches = 0 /\ ctxs[q].fetches = 0
        /\ ctxs[r].returned.body = cache[ctxs[r].cacheKey.url].body
        /\ ctxs[q].returned.body = cache[ctxs[q].cacheKey.url].body

\* C29: a 200 response carries one cache-status marker: HIT exactly when the
\* body came from the store and the request fetched nothing, MISS exactly
\* when the body came from the upstream fetch of the request itself.
C29_OneMarker ==
    \A r \in Ctx :
        (ctxs[r].pc = "done" /\ ctxs[r].returned.status = 200)
           => LET marker == GetHeaderOr(ctxs[r].returned.headers, "CF-Cache-Status", "")
              IN /\ marker \in {"HIT", "MISS"}
                 /\ marker = "HIT"
                       <=> /\ ctxs[r].fetches = 0 /\ ctxs[r].upstream = NoResponse
                           /\ ctxs[r].returned.body = ctxs[r].response.body
                 /\ marker = "MISS"
                       <=> /\ ctxs[r].fetches = 1 /\ UpstreamSucceeded(ctxs[r])
                           /\ ctxs[r].returned.body = ctxs[r].upstream.body

\* a miss whose upstream answer was itself marked HIT, and a hit
C29_Witness ==
    \E r, q \in Ctx :
        /\ ctxs[r].pc = "done" /\ ctxs[r].fetches = 1 /\ UpstreamSucceeded(ctxs[r])
        /\ HeaderIs(ctxs[r].upstream.headers, "CF-Cache-Status", "HIT")
        /\ HeaderIs(ctxs[r].returned.headers, "CF-Cache-Status", "MISS")
        /\ ctxs[q].pc = "done" /\ ctxs[q].fetches = 0
        /\ HeaderIs(ctxs[q].returned.headers, "CF-Cache-Status", "HIT")

====
